---- MODULE Spec2Model ----
(***************************************************************************)
(* Model of object3d.py: class Object3D (raster DEM -> OBJ mesh).          *)
(*                                                                         *)
(* One Object3D instance is followed from its construction.  numpy arrays  *)
(* are modelled as numpy stores them: a shape and the row-major flat data, *)
(* and every numpy call the code makes (arange, meshgrid, vstack, reshape, *)
(* transpose, flatten, fancy column indexing) is an operator computing the *)
(* same result.  Coordinates are integers standing for the floats.         *)
(***************************************************************************)
EXTENDS Integers, Sequences, FiniteSets, TLC

VARIABLES inputfile, input, offset, quad, vertices, faces,
          offset_arg, fs, exc, last

vars == <<inputfile, input, offset, quad, vertices, faces, offset_arg, fs, exc, last>>

self == <<inputfile, input, offset, quad, vertices, faces>>

\* Python's None
None == << >>

\* a path at which no file exists
NoFile == << >>

\* largest grid built in SpecGrid
MaxW == 4

MaxH == 4

\* largest grid built in Spec, where every write is followed
MaxWriteW == 2

MaxWriteH == 2

-----------------------------------------------------------------------------
(* numpy                                                                   *)

ndarray(shape, data) == [kind |-> "ndarray", shape |-> shape, data |-> data]

\* a Python list literal []
pylist == [kind |-> "list", shape |-> <<0>>, data |-> <<>>]

\* len(a): the first dimension
len(a) == a.shape[1]

arange(start, stop) ==
  LET n == IF stop > start THEN stop - start ELSE 0
  IN  ndarray(<<n>>, [i \in 1..n |-> start + i - 1])

\* a * k, a + k, a - k with a scalar k (broadcast)
mul_scalar(a, k) == ndarray(a.shape, [i \in 1..Len(a.data) |-> a.data[i] * k])

add_scalar(a, k) == ndarray(a.shape, [i \in 1..Len(a.data) |-> a.data[i] + k])

sub_scalar(a, k) == ndarray(a.shape, [i \in 1..Len(a.data) |-> a.data[i] - k])

\* a + b, arrays of the same shape
add(a, b) == ndarray(a.shape, [i \in 1..Len(a.data) |-> a.data[i] + b.data[i]])

\* np.meshgrid(x, y) of 1-D arrays: <<xx, yy>>, both of shape (len(y), len(x))
meshgrid(x, y) ==
  LET nx == len(x)
      ny == len(y)
  IN  << ndarray(<<ny, nx>>, [k \in 1..(ny * nx) |-> x.data[((k - 1) % nx) + 1]]),
         ndarray(<<ny, nx>>, [k \in 1..(ny * nx) |-> y.data[((k - 1) \div nx) + 1]]) >>

flatten(a) == ndarray(<<Len(a.data)>>, a.data)

\* rows and columns of an array seen as at least 2-D (a 1-D array is one row)
nrows(a) == IF Len(a.shape) = 1 THEN 1 ELSE a.shape[1]

ncols(a) == a.shape[Len(a.shape)]

RECURSIVE concat_data(_)
concat_data(arrs) ==
  IF arrs = <<>> THEN <<>> ELSE Head(arrs).data \o concat_data(Tail(arrs))

RECURSIVE sum_rows(_)
sum_rows(arrs) ==
  IF arrs = <<>> THEN 0 ELSE nrows(Head(arrs)) + sum_rows(Tail(arrs))

\* np.vstack(tuple of arrays with the same number of columns)
vstack(arrs) == ndarray(<<sum_rows(arrs), ncols(arrs[1])>>, concat_data(arrs))

\* a.reshape([d1, d2]) where one of d1, d2 may be -1
reshape(a, shp) ==
  LET total == Len(a.data)
      d1 == IF shp[1] = -1 THEN total \div shp[2] ELSE shp[1]
      d2 == IF shp[2] = -1 THEN total \div shp[1] ELSE shp[2]
  IN  ndarray(<<d1, d2>>, a.data)

\* transpose of a 2-D array
transpose(a) ==
  LET r == a.shape[1]
      c == a.shape[2]
  IN  ndarray(<<c, r>>,
        [k \in 1..(r * c) |-> a.data[((k - 1) % r) * c + ((k - 1) \div r) + 1]])

\* the rows of a 2-D array, as iterating over it yields them
rows(a) ==
  [i \in 1..a.shape[1] |->
     [j \in 1..a.shape[2] |-> a.data[(i - 1) * a.shape[2] + j]]]

\* a[:, idx] with a list of column indices; a negative index counts from the end
take_columns(a, idx) ==
  LET r == a.shape[1]
      c == a.shape[2]
      n == Len(idx)
      col(j) == IF idx[j] < 0 THEN idx[j] + c ELSE idx[j]
  IN  ndarray(<<r, n>>,
        [k \in 1..(r * n) |-> a.data[((k - 1) \div n) * c + col(((k - 1) % n) + 1) + 1]])

\* Python's min() over a non-empty 1-D array
RECURSIVE min_seq(_)
min_seq(s) ==
  IF Len(s) = 1 THEN s[1]
  ELSE LET m == min_seq(Tail(s)) IN IF m < s[1] THEN m ELSE s[1]

min(a) == min_seq(a.data)

\* str(number)
str(n) == ToString(n)

-----------------------------------------------------------------------------
(* The raster handle GDAL returns                                          *)

\* GetGeoTransform(): (originX, pixelSizeX, rotX, originY, rotY, pixelSizeY)
GeoTransforms ==
  { <<0, 1, 0, 0, 0, -1>>,
    <<5, -1, 0, -3, 0, 2>>,
    <<0, 0, 0, 0, 0, -1>>,
    <<5, 1, 0, -3, 0, 0>> }

\* the band's samples, row-major: every cell holds a different elevation
Elevation(w, h) == [k \in 1..(w * h) |-> 10 * k]

\* the rasters of at most maxw columns and maxh rows
Rasters(maxw, maxh) ==
  { [RasterXSize |-> w, RasterYSize |-> h, GeoTransform |-> t, band |-> Elevation(w, h)] :
      w \in 1..maxw, h \in 1..maxh, t \in GeoTransforms }

\* raster.ReadAsArray() of a single-band raster: shape (height, width)
ReadAsArray(raster) == ndarray(<<raster.RasterYSize, raster.RasterXSize>>, raster.band)

\* transform[i] with Python's 0-based index
GetGeoTransform(raster, i) == raster.GeoTransform[i + 1]

read_raster(raster) == raster

-----------------------------------------------------------------------------
(* Object3D.create_vertex_array_from_raster                                *)

\* mutant: a zero pixel size is taken to be 1
axis_coords_nonzero(n, size, origin) ==
  add_scalar(mul_scalar(arange(0, n), IF size = 0 THEN 1 ELSE size), origin)

\* np.arange(0, n) * size + origin
axis_coords(n, size, origin) == add_scalar(mul_scalar(arange(0, n), size), origin)

\* mutant: the raster's origin instead of the minima
default_offset_origin(x, y) == <<x.data[1], y.data[1], 0>>

\* [min(x), min(y), 0]
default_offset(x, y) == <<min(x), min(y), 0>>

\* mutant: the stack is cut in rows of three instead of being transposed
stack_vertices_reshaped(xx, yy, zz) == reshape(vstack(<<xx, yy, zz>>), <<-1, 3>>)

\* np.vstack((xx, yy, zz)).reshape([3, -1]).transpose()
stack_vertices(xx, yy, zz) == transpose(reshape(vstack(<<xx, yy, zz>>), <<3, -1>>))

\* the offset and the vertex array the method stores in self
create_vertex_array_from_raster(raster, off) ==
  LET width == raster.RasterXSize
      height == raster.RasterYSize
      x == axis_coords(width, GetGeoTransform(raster, 1), GetGeoTransform(raster, 0))
      y == axis_coords(height, GetGeoTransform(raster, 5), GetGeoTransform(raster, 3))
      off2 == IF off = None THEN default_offset(x, y) ELSE off
      x2 == sub_scalar(x, off2[1])
      y2 == sub_scalar(y, off2[2])
      g == meshgrid(x2, y2)
      zz == sub_scalar(ReadAsArray(raster), off2[3])
  IN  [offset |-> off2, vertices |-> stack_vertices(g[1], g[2], zz)]

-----------------------------------------------------------------------------
(* Object3D.create_face_array_from_raster                                  *)

\* mutant: the anchors are numbered down the columns
face_anchors_by_column(width, height) ==
  LET g == meshgrid(arange(0, width - 1), arange(0, height - 1))
  IN  flatten(add(mul_scalar(g[1], width), g[2]))

\* mutant: the last column is an anchor too
face_anchors_every_column(width, height) ==
  LET g == meshgrid(arange(0, width), arange(0, height - 1))
  IN  flatten(add(g[1], mul_scalar(g[2], width)))

\* the flat array a of the anchors' 0-based vertex indices
face_anchors(width, height) ==
  LET ai == arange(0, width - 1)
      aj == arange(0, height - 1)
      g == meshgrid(ai, aj)
  IN  flatten(add(g[1], mul_scalar(g[2], width)))

\* mutant: the quad flag is ignored
face_corners_triangles(a, width, q) ==
  reshape(transpose(vstack(<<a, add_scalar(a, width), add_scalar(a, width + 1),
                             a, add_scalar(a, width + 1), add_scalar(a, 1)>>)),
          <<-1, 3>>)

\* the 0-based faces of the anchors a
face_corners(a, width, q) ==
  IF q
  THEN transpose(vstack(<<a, add_scalar(a, width), add_scalar(a, width + 1),
                          add_scalar(a, 1)>>))
  ELSE reshape(transpose(vstack(<<a, add_scalar(a, width), add_scalar(a, width + 1),
                                  a, add_scalar(a, width + 1), add_scalar(a, 1)>>)),
               <<-1, 3>>)

create_face_array_from_raster(raster, q) ==
  LET width == raster.RasterXSize
      height == raster.RasterYSize
      a == face_anchors(width, height)
  IN  add_scalar(face_corners(a, width, q), 1)

-----------------------------------------------------------------------------
(* Object3D.from_raster                                                    *)

\* file names are <<root, extension>>, as os.path.splitext splits them
splitext(path) == path

InputFiles == { <<"dem", ".tif">> }

OffsetArgs == { None, <<1, -2, 3>> }

from_raster(filename, raster, off, q) ==
  \* cls(): the object built is a new one, never written
  /\ input = None
  /\ last = "new"
  /\ LET va == create_vertex_array_from_raster(read_raster(raster), off)
     IN  /\ inputfile' = filename
         /\ quad' = q
         /\ input' = read_raster(raster)
         /\ offset' = va.offset
         /\ vertices' = va.vertices
         /\ faces' = create_face_array_from_raster(read_raster(raster), q)
  /\ offset_arg' = off
  /\ exc' = "none"
  /\ last' = "from_raster"
  /\ UNCHANGED fs

-----------------------------------------------------------------------------
(* Object3D.write_obj                                                      *)

\* 'xyz'.find(ch)
find_xyz(ch) == CASE ch = "x" -> 0 [] ch = "y" -> 1 [] ch = "z" -> 2 [] OTHER -> -1

\* order.find(ch), for an order of at least three characters
find_in_order(order, ch) ==
  CASE order[1] = ch -> 0 [] order[2] = ch -> 1 [] order[3] = ch -> 2 [] OTHER -> -1

\* mutant: the position of 'x', 'y', 'z' in the order string
colorder_inverse(order) ==
  <<find_in_order(order, "x"), find_in_order(order, "y"), find_in_order(order, "z")>>

\* ['xyz'.find(order[0]), 'xyz'.find(order[1]), 'xyz'.find(order[2])]
colorder(order) == <<find_xyz(order[1]), find_xyz(order[2]), find_xyz(order[3])>>

Destinations == { None, <<"out", ".obj">> }

Paths == { <<"", ".obj">>, <<"dem", ".obj">>, <<"out", ".obj">> }

Permutations3 ==
  { <<"x","y","z">>, <<"x","z","y">>, <<"y","x","z">>,
    <<"y","z","x">>, <<"z","x","y">>, <<"z","y","x">> }

Orders == Permutations3 \cup
  { <<"x","y">>, <<"x","x","y">>, <<"x","y","w">>, <<"x","y","z","x">> }

\* the header's four lines, then what the stream received after them: the
\* vertex lines, the separating newline, the face lines
file_text(order, vlines, sep, flines) ==
  [source |-> inputfile, order |-> order,
   nvertices |-> len(vertices), nfaces |-> len(faces),
   v |-> vlines, sep |-> sep, f |-> flines]

\* "v " + " ".join([str(coord) for coord in point]), one per row
record_lines(tag, arr) ==
  LET pts == rows(arr)
  IN  [k \in 1..Len(pts) |-> <<tag>> \o [i \in 1..Len(pts[k]) |-> str(pts[k][i])]]

\* what a call does outside the object: the exception raised and the files
write_effect(filename, order) ==
  LET fname == IF filename = None THEN <<splitext(inputfile)[1], ".obj">> ELSE filename
  IN  IF Len(order) < 3
      THEN \* order[2]: IndexError, before open()
           /\ exc' = "IndexError"
           /\ UNCHANGED fs
      ELSE IF vertices.kind = "list"
           THEN \* self.vertices[:, colorder] on a list: TypeError, after the
                \* header was written; the with-block closes the file
                /\ exc' = "TypeError"
                /\ fs' = [fs EXCEPT ![fname] = file_text(order, <<>>, FALSE, <<>>)]
           ELSE /\ exc' = "none"
                /\ fs' = [fs EXCEPT ![fname] =
                            file_text(order,
                                      record_lines("v", take_columns(vertices, colorder(order))),
                                      TRUE,
                                      record_lines("f", faces))]

\* mutant: the columns are reordered in place
write_obj_in_place(filename, order) ==
  /\ write_effect(filename, order)
  /\ last' = "write_obj"
  /\ vertices' = IF Len(order) >= 3 /\ vertices.kind = "ndarray"
                 THEN take_columns(vertices, colorder(order))
                 ELSE vertices
  /\ UNCHANGED <<inputfile, input, offset, quad, faces, offset_arg>>

write_obj(filename, order) ==
  /\ write_effect(filename, order)
  /\ last' = "write_obj"
  /\ UNCHANGED <<self, offset_arg>>

-----------------------------------------------------------------------------
(* The object's life                                                       *)

\* Object3D(): __init__
Init ==
  /\ inputfile = <<"", "">>
  /\ input = None
  /\ offset = None
  /\ quad = FALSE
  /\ vertices = pylist
  /\ faces = pylist
  /\ offset_arg = None
  /\ fs = [p \in Paths |-> NoFile]
  /\ exc = "none"
  /\ last = "new"

Build ==
  \E filename \in InputFiles, raster \in Rasters(MaxWriteW, MaxWriteH),
     off \in OffsetArgs, q \in BOOLEAN :
    from_raster(filename, raster, off, q)

Write ==
  \E filename \in Destinations, order \in Orders : write_obj(filename, order)

Next == Build \/ Write

\* any build of a small grid, then any writes
Spec == Init /\ [][Next]_vars

BuildGrid ==
  \E filename \in InputFiles, raster \in Rasters(MaxW, MaxH),
     off \in OffsetArgs, q \in BOOLEAN :
    from_raster(filename, raster, off, q)

\* main(): write_obj with the defaults of the command line
WriteDefault == write_obj(None, <<"y","z","x">>)

NextGrid == BuildGrid \/ WriteDefault

\* any build of a grid up to MaxW x MaxH, written as the command line does
SpecGrid == Init /\ [][NextGrid]_vars

-----------------------------------------------------------------------------
(* Shorthands of the properties                                            *)

Built == input # None

W == input.RasterXSize

H == input.RasterYSize

originX == input.GeoTransform[1]

pixelSizeX == input.GeoTransform[2]

originY == input.GeoTransform[4]

pixelSizeY == input.GeoTransform[6]

\* elevation of row r, column c (0-based) as the raster holds it
Z(r, c) == input.band[r * W + c + 1]

\* the k-th stored vertex (0-based position), as a tuple
vertex(k) == rows(vertices)[k + 1]

\* the component of a vertex tuple that an axis letter names
component(vtx, ch) == CASE ch = "x" -> vtx[1] [] ch = "y" -> vtx[2] [] ch = "z" -> vtx[3]

\* the files that exist
Files == { p \in Paths : fs[p] # NoFile }

-----------------------------------------------------------------------------
(* C1..C5, C9: the build, under SpecGrid                                   *)

\* the face sequence of section 4.2, written out index by index
ExpectedFaces(w, h, q) ==
  LET n == (w - 1) * (h - 1)
      a(k) == ((k - 1) \div (w - 1)) * w + ((k - 1) % (w - 1))
  IN  IF q
      THEN [k \in 1..n |-> <<a(k) + 1, a(k) + w + 1, a(k) + w + 2, a(k) + 2>>]
      ELSE [m \in 1..(2 * n) |->
              LET k == (m + 1) \div 2
              IN  IF m % 2 = 1
                  THEN <<a(k) + 1, a(k) + w + 1, a(k) + w + 2>>
                  ELSE <<a(k) + 1, a(k) + w + 2, a(k) + 2>>]

\* C1: after a build the stored faces are exactly, in row-major order of the
\* anchors (r,c), a = r*W + c: in quad mode the face (a+1, a+W+1, a+W+2, a+2),
\* in triangle mode (a+1, a+W+1, a+W+2) followed by (a+1, a+W+2, a+2).
C1_FaceSequence ==
  Built => /\ faces.kind = "ndarray"
           /\ faces.shape = <<Len(ExpectedFaces(W, H, quad)), IF quad THEN 4 ELSE 3>>
           /\ rows(faces) = ExpectedFaces(W, H, quad)

\* a 3 x 3 grid in triangle mode: two rows of two anchors, eight faces
C1_Witness ==
  /\ Built /\ W = 3 /\ H = 3 /\ ~quad
  /\ len(faces) = 8
  /\ rows(faces)[5] = <<4, 7, 8>>

\* C2: after a build every index of every stored face lies in 1..W*H.
C2_FaceIndexRange ==
  Built => \A i \in 1..Len(faces.data) : faces.data[i] \in 1..(W * H)

\* a quad grid whose faces use both the first and the last vertex
C2_Witness ==
  /\ Built /\ quad /\ W >= 2 /\ H >= 3
  /\ \E i \in 1..Len(faces.data) : faces.data[i] = W * H
  /\ \E i \in 1..Len(faces.data) : faces.data[i] = 1

\* C3: after a build there are W*H vertices, in either mode, and the one at
\* 0-based position r*W + c is
\* (c*pixelSizeX + originX - ox, r*pixelSizeY + originY - oy, Z[r][c] - oz),
\* (ox, oy, oz) being the stored offset.
C3_VertexSequence ==
  Built => /\ vertices.kind = "ndarray"
           /\ vertices.shape = <<W * H, 3>>
           /\ \A r \in 0..(H - 1), c \in 0..(W - 1) :
                vertex(r * W + c) = << c * pixelSizeX + originX - offset[1],
                                       r * pixelSizeY + originY - offset[2],
                                       Z(r, c) - offset[3] >>

\* a grid of several rows and columns built with a supplied offset
C3_Witness ==
  /\ Built /\ W >= 3 /\ H >= 2 /\ offset_arg # None
  /\ pixelSizeX # 0 /\ pixelSizeY # 0
  /\ len(vertices) = W * H

\* the least of c*size + origin over c in 0..n-1
LeastCoord(n, size, origin) ==
  CHOOSE m \in { c * size + origin : c \in 0..(n - 1) } :
    \A c \in 0..(n - 1) : m <= c * size + origin

\* C4: a build with no offset supplied stores the offset
\* (min over columns of x, min over rows of y, 0), whatever the signs of the
\* pixel sizes (with a negative pixelSizeY the y offset is the last row's y),
\* and its vertices are those of a build with that triple supplied.
C4_DefaultOffset ==
  (Built /\ offset_arg = None) =>
     /\ offset = << LeastCoord(W, pixelSizeX, originX), LeastCoord(H, pixelSizeY, originY), 0 >>
     /\ pixelSizeY < 0 => offset[2] = (H - 1) * pixelSizeY + originY
     /\ pixelSizeX < 0 => offset[1] = (W - 1) * pixelSizeX + originX
     /\ vertices = create_vertex_array_from_raster(input, offset).vertices

\* a north-up raster of several rows built with no offset supplied
C4_Witness ==
  /\ Built /\ offset_arg = None /\ pixelSizeY < 0 /\ H >= 2
  /\ offset[2] # originY
  /\ offset[3] = 0

\* C5: after a build there are (W-1)*(H-1) faces in quad mode and
\* 2*(W-1)*(H-1) in triangle mode; a grid of one column or one row builds,
\* with 0 faces and W*H vertices.
C5_FaceCount ==
  Built => /\ len(faces) = (IF quad THEN 1 ELSE 2) * (W - 1) * (H - 1)
           /\ (W = 1 \/ H = 1) => (len(faces) = 0 /\ len(vertices) = W * H)

\* a single column of several rows, built in triangle mode without error
C5_Witness ==
  /\ Built /\ W = 1 /\ H >= 2 /\ ~quad /\ exc = "none"
  /\ len(faces) = 0 /\ len(vertices) = H

\* C9 as stated: no object with vertices is ever built from a raster whose
\* pixelSizeX or pixelSizeY is 0.
C9_ZeroPixelSizeRejected ==
  ~(Built /\ (pixelSizeX = 0 \/ pixelSizeY = 0) /\ len(vertices) > 0)

\* C9 as amended: a build from a raster whose pixelSizeX (pixelSizeY) is 0
\* raises nothing and stores W*H vertices, all with x = originX - ox
\* (y = originY - oy).
C9_ZeroPixelSizeBuilt ==
  (Built /\ (pixelSizeX = 0 \/ pixelSizeY = 0)) =>
     /\ last = "from_raster" => exc = "none"
     /\ len(vertices) = W * H
     /\ pixelSizeX = 0 => \A k \in 0..(W * H - 1) : vertex(k)[1] = originX - offset[1]
     /\ pixelSizeY = 0 => \A k \in 0..(W * H - 1) : vertex(k)[2] = originY - offset[2]

\* a grid of several columns with pixelSizeX = 0, built
C9_Witness ==
  /\ Built /\ pixelSizeX = 0 /\ W >= 2 /\ last = "from_raster" /\ exc = "none"
  /\ len(vertices) = W * H

-----------------------------------------------------------------------------
(* C6, C7, C8, C10: the writes, under Spec                                 *)

\* C6: a write whose order is a permutation of 'xyz' writes one line per
\* stored vertex, in the stored order, and column i of the line is the
\* component of the vertex that the i-th character of the order names.
C6_AxisOrder ==
  Built => \A p \in Files :
    fs[p].order \in Permutations3 =>
      /\ Len(fs[p].v) = len(vertices)
      /\ \A k \in 1..Len(fs[p].v) :
           fs[p].v[k] = << "v", str(component(vertex(k - 1), fs[p].order[1])),
                                str(component(vertex(k - 1), fs[p].order[2])),
                                str(component(vertex(k - 1), fs[p].order[3])) >>

\* one file written with 'xyz' and another with 'yzx', of several vertices
C6_Witness ==
  /\ Built /\ W * H >= 2
  /\ \E p \in Files : fs[p].order = <<"x","y","z">> /\ Len(fs[p].v) = W * H
  /\ \E p \in Files : fs[p].order = <<"y","z","x">> /\ Len(fs[p].v) = W * H

\* C7 as stated: a write whose order is not a permutation of 'xyz' never
\* opens its destination, so no file carries such an order.
C7_MalformedOrderRejected ==
  \A p \in Files : fs[p].order \in Permutations3

\* C8 as stated: a write on an object never built completes: the file has
\* the header with 0 vertices and 0 faces, no record, and was written to its
\* end.
C8_EmptyWriteCompletes ==
  ~Built => \A p \in Files :
    fs[p].order \in Permutations3 =>
      /\ fs[p].nvertices = 0 /\ fs[p].nfaces = 0
      /\ fs[p].v = <<>> /\ fs[p].f = <<>>
      /\ fs[p].sep

\* two files written with the same order hold the same records
SameOrderSameRecords ==
  Built => \A p, q \in Files :
    fs[p].order = fs[q].order => (fs[p].v = fs[q].v /\ fs[p].f = fs[q].f)

\* C10: a write on a built object leaves vertices, faces, offset, topology
\* flag and source identifier as they were, and so two writes with the same
\* order produce the same records.
C10_WriteKeepsObject ==
  /\ [][(Built /\ last' = "write_obj") => UNCHANGED self]_vars
  /\ []SameOrderSameRecords

\* both destinations written, one after the other, with the same order
C10_Witness ==
  /\ Built /\ last = "write_obj" /\ exc = "none" /\ W * H >= 2
  /\ fs[<<"dem", ".obj">>] # NoFile /\ fs[<<"out", ".obj">>] # NoFile
  /\ fs[<<"dem", ".obj">>].order = fs[<<"out", ".obj">>].order
  /\ fs[<<"dem", ".obj">>].order # <<"x","y","z">>

====
